---- MODULE Spec2Model ----
(***************************************************************************)
(* Model of bnmp_paraiba_web.py: a Streamlit script that is re-executed    *)
(* from top to bottom on every user interaction.  One action of the model  *)
(* is one interaction followed by the whole rerun of the script: loader,   *)
(* column resolver, date coercion, sidebar widgets, filter stage, save of  *)
(* the filtered spreadsheet, aggregates and, on request, the PDF report.   *)
(*                                                                         *)
(* Text is a sequence of one-character strings, so that lower(), strip(),  *)
(* startswith, "in" and str.contains are computed character by character.  *)
(* A timestamp is a number of half days: 2*day is 00:00 of that day and    *)
(* 2*day+1 is 12:00 of it.                                                 *)
(***************************************************************************)
EXTENDS Integers, Sequences, FiniteSets, TLC

VARIABLES
    table,          \* the spreadsheet the user holds (upload or URL content)
    uploaded_file,  \* st.sidebar.file_uploader: "none", "xlsx" or "corrupt"
    url_input,      \* st.sidebar.text_input: "" or "url"
    response,       \* the HTTP response of this run's requests.get, if any
    ms,             \* value of the three multiselect widgets
    date_input,     \* value of the st.date_input widget
    search_text,    \* value of the search text_input widget
    session_state,  \* st.session_state: quick_sit, quick_org, quick_pec
    clicked,        \* the button clicked for this run, if any
    outcome,        \* how this run of the script ended
    errors,         \* st.sidebar.error / st.info messages of this run
    parsed,         \* read_excel_bytes was called on the response in this run
    selected,       \* selected_situations / selected_orgs / selected_pecas
    date_range,     \* the date_range value the filter stage saw
    df_filtered,    \* the filtered frame of this run
    series,         \* sit_series / org_series / pec_series drawn as charts
    filtered_file,  \* contents of FILTERED_OUTPUT on disk
    report          \* contents of REPORT_OUTPUT on disk

vars == <<table, uploaded_file, url_input, response, ms, date_input, search_text,
          session_state, clicked, outcome, errors, parsed, selected, date_range,
          df_filtered, series, filtered_file, report>>

-----------------------------------------------------------------------------
(* Bounds of the model *)

MaxRows == 2
MaxDay == 3
MaxDistinct == 21

(* Program constants *)

TopN == 20
QuickN == 6

-----------------------------------------------------------------------------
(* Text *)

UpperMap ==
    ("A" :> "a") @@ ("B" :> "b") @@ ("C" :> "c") @@ ("D" :> "d") @@ ("E" :> "e") @@
    ("F" :> "f") @@ ("H" :> "h") @@ ("I" :> "i") @@ ("K" :> "k") @@ ("M" :> "m") @@
    ("N" :> "n") @@ ("O" :> "o") @@ ("P" :> "p") @@ ("S" :> "s") @@ ("T" :> "t") @@
    ("U" :> "u") @@ ("X" :> "x") @@ ("Y" :> "y") @@
    ("Ã" :> "ã") @@ ("Ç" :> "ç") @@ ("Ó" :> "ó") @@ ("Ú" :> "ú")

LowerChar(c) == IF c \in DOMAIN UpperMap THEN UpperMap[c] ELSE c

Lower(s) == [i \in 1..Len(s) |-> LowerChar(s[i])]

RECURSIVE LStrip(_)
LStrip(s) == IF s # <<>> /\ Head(s) = " " THEN LStrip(Tail(s)) ELSE s

RECURSIVE RStrip(_)
RStrip(s) ==
    IF s # <<>> /\ s[Len(s)] = " " THEN RStrip(SubSeq(s, 1, Len(s) - 1)) ELSE s

Strip(s) == RStrip(LStrip(s))

StartsWith(s, p) == Len(p) <= Len(s) /\ SubSeq(s, 1, Len(p)) = p

\* Python's "p in s" on str: p occurs in s as a contiguous substring
Contains(s, p) ==
    \E i \in 0..(Len(s) - Len(p)) : \A j \in 1..Len(p) : s[i + j] = p[j]

\* re.compile(pat) raises re.error: an opening parenthesis that is never closed
RegexError(pat) ==
    Cardinality({i \in 1..Len(pat) : pat[i] = "("}) #
    Cardinality({i \in 1..Len(pat) : pat[i] = ")"})

\* re.search(pat, s) for patterns of literals and the wildcard "."
RegexSearch(pat, s) ==
    \E i \in 0..(Len(s) - Len(pat)) :
        \A j \in 1..Len(pat) : pat[j] = "." \/ s[i + j] = pat[j]

S_captcha == <<"c", "a", "p", "t", "c", "h", "a">>
S_nan == <<"n", "a", "n">>
NaoInformado == <<"N", "ã", "o", " ", "i", "n", "f", "o", "r", "m", "a", "d", "o">>

-----------------------------------------------------------------------------
(* Cells of a DataFrame *)

Str(s) == [t |-> "str", s |-> s, n |-> 0]
NaN == [t |-> "nan", s |-> <<>>, n |-> 0]
Timestamp(k) == [t |-> "ts", s |-> <<>>, n |-> k]

isnull(c) == c.t = "nan"

Digits == <<"0", "1", "2", "3", "4", "5", "6", "7", "8", "9">>
IsoPrefix == <<"2", "0", "2", "4", "-", "0", "1", "-", "0">>
IsoDay(d) == IsoPrefix \o <<Digits[d + 1]>>

Midnight(d) == 2 * d
Noon(d) == 2 * d + 1
\* Timestamp.date(): the calendar day of a timestamp
DateOf(k) == k \div 2

\* pd.to_datetime(x, errors='coerce') on one cell
to_datetime(c) ==
    IF c.t = "ts" THEN c
    ELSE IF c.t = "str" /\ Len(c.s) = Len(IsoPrefix) + 1
                        /\ StartsWith(c.s, IsoPrefix)
                        /\ \E d \in 1..9 : c.s[Len(c.s)] = Digits[d + 1]
         THEN Timestamp(Midnight(CHOOSE d \in 1..9 : c.s[Len(c.s)] = Digits[d + 1]))
         ELSE NaN

\* Series.astype(str) on one cell
astype_str(c) ==
    IF c.t = "str" THEN c.s
    ELSE IF c.t = "nan" THEN S_nan
    ELSE IsoDay(DateOf(c.n))

\* Series.fillna("Não informado").astype(str) on one cell
fillna_str(c) == IF isnull(c) THEN NaoInformado ELSE astype_str(c)

-----------------------------------------------------------------------------
(* Column resolver *)

\* df.columns = [c.strip() for c in df.columns]
strip_columns(cols) == [i \in 1..Len(cols) |-> Strip(cols[i])]

\* next((c for c in df.columns if P(c)), None): the first column whose header
\* satisfies P, as its position; 0 stands for None
FirstColumn(cols, P(_)) ==
    IF \E i \in 1..Len(cols) : P(cols[i])
    THEN CHOOSE i \in 1..Len(cols) : P(cols[i]) /\ \A j \in 1..(i - 1) : ~P(cols[j])
    ELSE 0

is_num(c) == StartsWith(Lower(c), <<"n", "ú", "m", "e", "r">>) \/ StartsWith(Lower(c), <<"n", "u", "m", "e", "r", "o">>)
is_nome(c) == Lower(c) = <<"n", "o", "m", "e">>
is_alcunha(c) == Contains(Lower(c), <<"a", "l", "c", "u", "n">>)
is_mae(c) == Contains(Lower(c), <<"m", "ã", "e">>) \/ Contains(Lower(c), <<"m", "a", "e">>)
is_pai(c) == Contains(Lower(c), <<"p", "a", "i">>)
is_sit(c) == Contains(Lower(c), <<"s", "i", "t", "u", "a">>)
is_data(c) == Lower(c) = <<"d", "a", "t", "a">>
is_org(c) ==
    \/ Contains(Lower(c), <<"ó", "r", "g", "ã", "o">>)
    \/ Contains(Lower(c), <<"o", "r", "g", "a", "o">>)
    \/ Contains(Lower(c), <<"e", "x", "p", "e", "d", "i", "d", "o", "r">>)
is_peca(c) ==
    \/ Contains(Lower(c), <<"p", "e", "ç", "a">>)
    \/ Contains(Lower(c), <<"p", "e", "c", "a">>)
    \/ Contains(Lower(c), <<"d", "e", "s", "c", "r", "i", "c", "a", "o">>)

col_num(cols) == FirstColumn(cols, is_num)
col_nome(cols) == FirstColumn(cols, is_nome)
col_alcunha(cols) == FirstColumn(cols, is_alcunha)
col_mae(cols) == FirstColumn(cols, is_mae)
col_pai(cols) == FirstColumn(cols, is_pai)
col_sit(cols) == FirstColumn(cols, is_sit)
col_data(cols) == FirstColumn(cols, is_data)
col_org(cols) == FirstColumn(cols, is_org)
col_peca(cols) == FirstColumn(cols, is_peca)

\* the ten name bindings of the script, computed from the stripped headers
resolve(cols) ==
    [num |-> col_num(cols), nome |-> col_nome(cols), alcunha |-> col_alcunha(cols),
     mae |-> col_mae(cols), pai |-> col_pai(cols), sit |-> col_sit(cols),
     data |-> col_data(cols), org |-> col_org(cols), peca |-> col_peca(cols)]

Categories == {"sit", "org", "pec"}

\* the resolved column of a category
col_of(b, cat) ==
    IF cat = "sit" THEN b.sit
    ELSE IF cat = "org" THEN b.org
    ELSE b.peca

\* [col_num, col_nome, col_alcunha, col_mae, col_pai], the searched columns
search_cols(b) == <<b.num, b.nome, b.alcunha, b.mae, b.pai>>

-----------------------------------------------------------------------------
(* The spreadsheets of the model *)

H_Nome == <<" ", "N", "o", "m", "e", " ">>
H_Mae == <<"N", "o", "m", "e", " ", "d", "a", " ", "M", "ã", "e">>
H_Sit == <<"S", "i", "t", "u", "a", "ç", "ã", "o">>
H_SIT == <<"S", "I", "T", "U", "A", "Ç", "Ã", "O">>
H_Data == <<"D", "a", "t", "a">>
H_Org == <<"Ó", "r", "g", "ã", "o", " ", "E", "x", "p", "e", "d", "i", "d", "o", "r">>
H_Peca == <<"P", "e", "ç", "a">>
H_Nasc == <<"D", "a", "t", "a", " ", "d", "e", " ", "N", "a", "s", "c", "i", "m", "e", "n", "t", "o">>

T_Ana == <<"A", "n", "a">>
T_bo == <<"b", "o">>
T_abc == <<"a", "b", "c">>
T_A == <<"A">>
T_B == <<"B">>
T_X == <<"X">>
T_Y == <<"Y">>
T_P == <<"P">>

\* name, mother's name, situation and date; the name header needs strip()
SchFull == <<H_Nome, H_Mae, H_Sit, H_Data>>
F1 == <<Str(T_Ana), NaN,        Str(T_A), Timestamp(Midnight(1))>>
F2 == <<Str(T_bo),  Str(T_Ana), NaN,      Timestamp(Noon(2))>>
F3 == <<NaN,        Str(T_bo),  Str(T_B), Str(IsoDay(2))>>
F4 == <<Str(T_Ana), Str(T_bo),  Str(T_A), Str(T_abc)>>
F5 == <<Str(T_bo),  NaN,        Str(T_B), NaN>>
RowsFull == {F1, F2, F3, F4, F5}

\* the three categories, no searched column and no column named exactly "data"
SchCats == <<H_SIT, H_Org, H_Peca, H_Nasc>>
K1 == <<Str(T_A), Str(T_X), Str(T_P), Timestamp(Midnight(1))>>
K2 == <<Str(T_B), Str(T_Y), Str(T_P), Timestamp(Midnight(2))>>
K3 == <<Str(T_A), NaN,      Str(T_P), NaN>>
K4 == <<NaN,      NaN,      Str(T_P), Timestamp(Midnight(1))>>
RowsCats == {K1, K2, K3, K4}

SeqsUpTo(S, n) == UNION {[1..k -> S] : k \in 1..n}

FilterTables ==
    {[cols |-> SchFull, rows |-> r] : r \in SeqsUpTo(RowsFull, MaxRows)} \cup
    {[cols |-> SchCats, rows |-> r] : r \in SeqsUpTo(RowsCats, MaxRows)}

\* the spreadsheets of the session-level specification
SessionTables ==
    {[cols |-> SchFull, rows |-> <<F1, F3>>],
     [cols |-> SchCats, rows |-> <<K3>>],
     [cols |-> SchCats, rows |-> <<K4>>]}

\* one column of situations with k distinct values in n rows
SchWide == <<H_Sit>>
WideValue(i) == <<"v", Digits[(i \div 10) + 1], Digits[(i % 10) + 1]>>
Wide(n, k) ==
    [cols |-> SchWide,
     rows |-> [i \in 1..n |-> <<Str(WideValue(IF i <= k THEN i ELSE 1))>>]]
WideTables ==
    {Wide(n, k) : n \in {2, TopN, MaxDistinct, MaxDistinct + 1},
                  k \in {1, 2, QuickN + 1, TopN, MaxDistinct}}

\* the spreadsheets of the aggregate specification
AggTables == WideTables \cup {[cols |-> SchCats, rows |-> <<K1, K2, K1>>]}

-----------------------------------------------------------------------------
(* Frames and aggregates *)

\* df_work with a seeded fault: the categorical normalization written back
df_work_fillna(t, d) ==
    [i \in 1..Len(t.rows) |->
        [idx |-> i,
         cells |-> [j \in 1..Len(t.cols) |->
                      IF j = d THEN to_datetime(t.rows[i][j])
                      ELSE IF isnull(t.rows[i][j]) THEN Str(NaoInformado)
                      ELSE t.rows[i][j]]]]

\* df_work = df.copy(); df_work[col_data] = pd.to_datetime(..., errors='coerce').
\* A row keeps its index label idx through every later selection.
df_work(t, d) ==
    [i \in 1..Len(t.rows) |->
        [idx |-> i,
         cells |-> [j \in 1..Len(t.cols) |->
                      IF j = d THEN to_datetime(t.rows[i][j]) ELSE t.rows[i][j]]]]

RECURSIVE Dedup(_)
Dedup(s) ==
    IF s = <<>> THEN <<>>
    ELSE LET Other(x) == x # Head(s) IN <<Head(s)>> \o Dedup(SelectSeq(Tail(s), Other))

Count(vals, v) == Cardinality({i \in 1..Len(vals) : vals[i] = v})

InsertDesc(sorted, e) ==
    LET p == Cardinality({i \in 1..Len(sorted) : sorted[i].n >= e.n}) IN
    SubSeq(sorted, 1, p) \o <<e>> \o SubSeq(sorted, p + 1, Len(sorted))

RECURSIVE SortDesc(_)
SortDesc(s) ==
    IF s = <<>> THEN <<>>
    ELSE InsertDesc(SortDesc(SubSeq(s, 1, Len(s) - 1)), s[Len(s)])

\* Series.value_counts(): one entry per distinct value, by descending count,
\* equal counts in the order of first occurrence
value_counts(vals) ==
    LET u == Dedup(vals) IN
    SortDesc([i \in 1..Len(u) |-> [v |-> u[i], n |-> Count(vals, u[i])]])

\* .head(k)
head(s, k) == SubSeq(s, 1, IF Len(s) < k THEN Len(s) ELSE k)

\* df[col].fillna('Não informado').astype(str)
normalized(df, c) == [i \in 1..Len(df) |-> fillna_str(df[i].cells[c])]

\* top_counts with a seeded fault: the quick-filter length in place of 20
top_counts_quick(df, c) ==
    IF c # 0 THEN head(value_counts(normalized(df, c)), QuickN) ELSE <<>>

\* df[col].fillna('Não informado').astype(str).value_counts().head(20), and an
\* empty pd.Series() when the column is unbound
top_counts(df, c) ==
    IF c # 0 THEN head(value_counts(normalized(df, c)), TopN) ELSE <<>>

\* uniques(col): the index of the value counts of the whole working frame
uniques(df, c) ==
    IF c # 0
    THEN LET vc == value_counts(normalized(df, c)) IN [i \in 1..Len(vc) |-> vc[i].v]
    ELSE <<>>

\* top_sit / top_org / top_pec: the labels of the quick-filter buttons
quick_labels(df, c) == head(uniques(df, c), QuickN)

Range(s) == {s[i] : i \in 1..Len(s)}

RECURSIVE SumCounts(_)
SumCounts(s) == IF s = <<>> THEN 0 ELSE Head(s).n + SumCounts(Tail(s))

-----------------------------------------------------------------------------
(* Loader *)

NoResponse == [kind |-> "none", status |-> 0, text |-> <<>>, xlsx |-> FALSE]

B_xlsx == <<"P", "K">>
B_page == <<"O", "K">>
B_captcha == <<"x", " ", "c", "a", "p", "t", "c", "h", "a">>
B_xlsx_captcha == <<"P", "K", "c", "a", "p", "t", "c", "h", "a">>

\* what requests.get(url_input, timeout=30) can produce: an exception, or a
\* response with any status code whose bytes are or are not a spreadsheet
Responses ==
    {[kind |-> "exception", status |-> 0, text |-> <<>>, xlsx |-> FALSE]} \cup
    {[kind |-> "http", status |-> st, text |-> b.text, xlsx |-> b.xlsx] :
        st \in {200, 403},
        b \in {[text |-> B_xlsx, xlsx |-> TRUE],
               [text |-> B_page, xlsx |-> FALSE],
               [text |-> B_captcha, xlsx |-> FALSE],
               [text |-> B_xlsx_captcha, xlsx |-> TRUE]}}

E_upload == "Erro ao ler arquivo enviado"
E_captcha == "URL requer CAPTCHA"
E_download == "Falha no download"
I_trying == "Tentando baixar URL..."
I_send == "Envie um arquivo XLSX ou informe um link direto (sem CAPTCHA)."

\* is_captcha with a seeded fault: the body is read only on an error status
is_captcha_on_error(r) == r.status # 200 /\ Contains(Lower(r.text), S_captcha)

\* 'captcha' in r.text.lower()
is_captcha(r) == Contains(Lower(r.text), S_captcha)

\* load_df(): df says whether a frame (the user's spreadsheet) is returned
load_df(up, url, r) ==
    IF up # "none" THEN
        IF up = "xlsx"
        THEN [df |-> TRUE, errors |-> {}, parsed |-> FALSE]
        ELSE [df |-> FALSE, errors |-> {E_upload}, parsed |-> FALSE]
    ELSE IF url # "" THEN
        IF r.kind = "exception"
        THEN [df |-> FALSE, errors |-> {I_trying, E_download}, parsed |-> FALSE]
        ELSE IF is_captcha(r)
        THEN [df |-> FALSE, errors |-> {I_trying, E_captcha}, parsed |-> FALSE]
        ELSE IF r.xlsx
        THEN [df |-> TRUE, errors |-> {I_trying}, parsed |-> TRUE]
        ELSE [df |-> FALSE, errors |-> {I_trying, E_download}, parsed |-> TRUE]
    ELSE [df |-> FALSE, errors |-> {}, parsed |-> FALSE]

\* the responses a run can receive: requests.get is called only on the URL path
ResponsesFor(up, url) == IF up = "none" /\ url # "" THEN Responses ELSE {NoResponse}

-----------------------------------------------------------------------------
(* Sidebar widgets *)

NoRange == [kind |-> "none", a |-> 0, b |-> 0]
DefaultDate == [kind |-> "default", a |-> 0, b |-> 0]
DateRange(a, b) == [kind |-> "range", a |-> a, b |-> b]
SingleDate(a) == [kind |-> "single", a |-> a, b |-> a]

EmptySelection == [c \in Categories |-> {}]
NoSeries == [c \in Categories |-> <<>>]
NoFrame == [valid |-> FALSE, rows |-> <<>>]
NoClick == [kind |-> "none", cat |-> "", val |-> <<>>]
QuickClick(c, v) == [kind |-> "quick", cat |-> c, val |-> v]
PdfClick == [kind |-> "pdf", cat |-> "", val |-> <<>>]
Unset == [set |-> FALSE, val |-> <<>>]
EmptySession == [c \in Categories |-> Unset]

\* df_work[col_data].min() / .max() over the non-null dates; NaN stands for NaT
NonNullDates(df, d) == {df[i].cells[d].n : i \in {k \in 1..Len(df) : ~isnull(df[k].cells[d])}}
min_date(df, d) ==
    IF NonNullDates(df, d) = {} THEN NaN
    ELSE Timestamp(CHOOSE x \in NonNullDates(df, d) : \A y \in NonNullDates(df, d) : x <= y)
max_date(df, d) ==
    IF NonNullDates(df, d) = {} THEN NaN
    ELSE Timestamp(CHOOSE x \in NonNullDates(df, d) : \A y \in NonNullDates(df, d) : x >= y)

\* st.sidebar.date_input(value=(min_date.date() or None, max_date.date() or None))
\* raises when handed None: a frame whose dates are all null
date_input_raises(df, d) == d # 0 /\ isnull(min_date(df, d))

\* date_range: None without a date column, else the widget's value, which is
\* the default (min, max) until the user picks dates; while the user has picked
\* only the first date the widget returns a 1-tuple
date_range_value(df, d, widget) ==
    IF d = 0 THEN NoRange
    ELSE IF widget.kind = "default"
    THEN DateRange(DateOf(min_date(df, d).n), DateOf(max_date(df, d).n))
    ELSE widget

\* two st.button calls with the same label and no key raise DuplicateWidgetID
duplicate_buttons(df, b) ==
    \E c1, c2 \in Categories :
        /\ c1 # c2
        /\ Range(quick_labels(df, col_of(b, c1))) \cap
           Range(quick_labels(df, col_of(b, c2))) # {}

\* selection with a seeded fault: the last-clicked value kept as the selection
selection_sticky(cat, msv, click, ss) ==
    IF click.kind = "quick" /\ click.cat = cat THEN {click.val}
    ELSE IF msv = {} /\ ss[cat].set THEN {ss[cat].val}
    ELSE msv

\* selected_situations / selected_orgs / selected_pecas after the button loop:
\* the multiselect's value, replaced by [val] when the button of val was clicked
selection(cat, msv, click, ss) ==
    IF click.kind = "quick" /\ click.cat = cat THEN {click.val} ELSE msv

\* st.session_state['quick_...'] = val
session_after(ss, click) ==
    IF click.kind = "quick"
    THEN [ss EXCEPT ![click.cat] = [set |-> TRUE, val |-> click.val]]
    ELSE ss

-----------------------------------------------------------------------------
(* Filter stage *)

\* df_filtered[df_filtered[col].fillna("Não informado").astype(str).isin(sel)],
\* applied only when the selection is non-empty
cat_filter(df, c, sel) ==
    IF sel # {}
    THEN LET Keep(r) == fillna_str(r.cells[c]) \in sel IN SelectSeq(df, Keep)
    ELSE df

\* (df_filtered[col_data] >= start_date) & (df_filtered[col_data] <= end_date)
\* with start_date, end_date = pd.to_datetime of the two dates (their 00:00);
\* date_range[1] of a 1-tuple raises IndexError, which except/pass swallows
date_filter(df, d, dr) ==
    IF dr.kind # "none" /\ d # 0 THEN
        IF dr.kind = "single" THEN df
        ELSE LET Keep(r) == /\ ~isnull(r.cells[d])
                            /\ r.cells[d].n >= Midnight(dr.a)
                            /\ r.cells[d].n <= Midnight(dr.b)
             IN SelectSeq(df, Keep)
    ELSE df

\* s = search_text.strip().lower()
search_pattern(st) == Lower(Strip(st))

BoundSearchCols(b) == {c \in Range(search_cols(b)) : c # 0}

\* df_filtered[c].astype(str).str.lower().str.contains(s, na=False): regex search
str_contains(cell, s) == RegexSearch(s, Lower(astype_str(cell)))

\* str.contains compiles s for every bound searched column
search_raises(b, st) ==
    st # <<>> /\ BoundSearchCols(b) # {} /\ RegexError(search_pattern(st))

\* mask = False; mask |= contains(s) for each bound searched column; df[mask]
search_filter(df, b, st) ==
    IF st # <<>>
    THEN LET Keep(r) == \E c \in BoundSearchCols(b) : str_contains(r.cells[c], search_pattern(st))
         IN SelectSeq(df, Keep)
    ELSE df

after_categories(df, b, sel) ==
    cat_filter(cat_filter(cat_filter(df, b.sit, sel["sit"]), b.org, sel["org"]),
               b.peca, sel["pec"])

after_dates(df, b, sel, dr) == date_filter(after_categories(df, b, sel), b.data, dr)

filter_stage(df, b, sel, dr, st) == search_filter(after_dates(df, b, sel, dr), b, st)

-----------------------------------------------------------------------------
(* PDF report *)

NoReport == [exists |-> FALSE, total |-> 0, sit |-> <<>>, org |-> <<>>, pec |-> <<>>]
\* a report left at REPORT_OUTPUT by an earlier session
StaleReport ==
    [exists |-> TRUE, total |-> 7, sit |-> <<[v |-> <<"Z">>, n |-> 7]>>,
     org |-> <<[v |-> <<"Z">>, n |-> 7]>>, pec |-> <<[v |-> <<"Z">>, n |-> 7]>>]
NoFile == [exists |-> FALSE, rows |-> <<>>]

\* gerar_pdf(mun_counts_series, org_series, pec_series, total_count): the
\* document built from scratch and written over REPORT_OUTPUT
gerar_pdf(sit_top, org_top, pec_top, total_count) ==
    [exists |-> TRUE, total |-> total_count, sit |-> sit_top, org |-> org_top, pec |-> pec_top]

\* report_after with a seeded fault: the report rebuilt on every run
report_after_always(old, click, df, b) ==
    gerar_pdf(top_counts(df, b.sit), top_counts(df, b.org), top_counts(df, b.peca), Len(df))

\* REPORT_OUTPUT after the "Gerar Relatório PDF" button of this run
report_after(old, click, df, b) ==
    IF click.kind = "pdf"
    THEN gerar_pdf(top_counts(df, b.sit), top_counts(df, b.org), top_counts(df, b.peca),
                   Len(df))
    ELSE old

-----------------------------------------------------------------------------
(* One run of the script *)

\* The column bindings and the working frame of every spreadsheet of the model,
\* tabulated: col_... = next(...) over the stripped headers, and df_work.
Schemas == {SchFull, SchCats, SchWide}
AllTables == SessionTables \cup FilterTables \cup AggTables
Bindings == [c \in Schemas |-> resolve(strip_columns(c))]
WorkFrames == [t \in AllTables |-> df_work(t, Bindings[t.cols].data)]

\* what a run assigns; a run that ends before the sidebar widgets are drawn
\* leaves them out of the page, and their values are dropped
Halted(how, L) ==
    [outcome |-> how, errors |-> L.errors, parsed |-> L.parsed,
     ms |-> EmptySelection, date_input |-> DefaultDate, search_text |-> <<>>,
     session_state |-> session_state, selected |-> EmptySelection,
     date_range |-> NoRange, df_filtered |-> NoFrame, series |-> NoSeries,
     filtered_file |-> filtered_file, report |-> report]

\* from the sidebar widgets to the PDF button, for a loaded frame
script(L, work, b, msv, di, st, click) ==
    IF date_input_raises(work, b.data) \/ duplicate_buttons(work, b)
    THEN Halted("widget_error", L)
    ELSE
    LET sel == [c \in Categories |-> selection(c, msv[c], click, session_state)]
        dr == date_range_value(work, b.data, di)
        W == [Halted("filter_error", L) EXCEPT
                 !.ms = msv, !.date_input = di, !.search_text = st,
                 !.session_state = session_after(session_state, click),
                 !.selected = sel, !.date_range = dr]
    IN
    IF search_raises(b, st) THEN W
    ELSE
    LET f == filter_stage(work, b, sel, dr, st) IN
    [W EXCEPT !.outcome = "done",
              !.df_filtered = [valid |-> TRUE, rows |-> f],
              !.filtered_file = [exists |-> TRUE, rows |-> f],
              !.series = [c \in Categories |-> top_counts(f, col_of(b, c))],
              !.report = report_after(report, click, f, b)]

Assign(up, url, r, click, R) ==
    /\ table' = table
    /\ uploaded_file' = up
    /\ url_input' = url
    /\ response' = r
    /\ clicked' = click
    /\ ms' = R.ms
    /\ date_input' = R.date_input
    /\ search_text' = R.search_text
    /\ session_state' = R.session_state
    /\ outcome' = R.outcome
    /\ errors' = R.errors
    /\ parsed' = R.parsed
    /\ selected' = R.selected
    /\ date_range' = R.date_range
    /\ df_filtered' = R.df_filtered
    /\ series' = R.series
    /\ filtered_file' = R.filtered_file
    /\ report' = R.report

\* a user interaction followed by the rerun of the script: df = load_df(),
\* st.stop() when it is None, else the headers are stripped, the columns
\* resolved (Bindings), the dates coerced (WorkFrames) and the rest runs
Rerun(up, url, msv, di, st, click) ==
    \E r \in ResponsesFor(up, url) :
      \E L \in {load_df(up, url, r)} :
        IF ~L.df
        THEN Assign(up, url, r, click,
                    [Halted("stopped", L) EXCEPT !.errors = L.errors \cup {I_send}])
        ELSE \E b \in {Bindings[table.cols]} :
               \E work \in {WorkFrames[table]} :
                 \E R \in {script(L, work, b, msv, di, st, click)} :
                    Assign(up, url, r, click, R)

-----------------------------------------------------------------------------
(* User interactions *)

\* the sidebar filter widgets were rendered by the last run
WidgetsRendered == outcome \in {"filter_error", "done"}

\* the bindings and the working frame of the spreadsheet
Bound == Bindings[table.cols]
Work == WorkFrames[table]

Days == 1..MaxDay
SessionDays == 1..(MaxDay - 1)

T_AN == <<"A", "N", " ">>
SearchTexts == {<<>>, <<" ">>, T_AN, <<".">>, <<"(">>, S_nan}
SessionSearchTexts == {<<>>, T_AN}

UploadFile ==
    \E f \in {"xlsx", "corrupt"} :
        /\ f # uploaded_file
        /\ Rerun(f, url_input, ms, date_input, search_text, NoClick)

RemoveFile ==
    /\ uploaded_file # "none"
    /\ Rerun("none", url_input, ms, date_input, search_text, NoClick)

SetUrl ==
    \E u \in {"", "url"} :
        /\ u # url_input
        /\ Rerun(uploaded_file, u, ms, date_input, search_text, NoClick)

SetMultiselect ==
    /\ WidgetsRendered
    /\ \E c \in Categories :
         \E S \in SUBSET Range(uniques(Work, col_of(Bound, c))) :
            /\ S # ms[c]
            /\ Rerun(uploaded_file, url_input, [ms EXCEPT ![c] = S], date_input,
                     search_text, NoClick)

ClickQuick ==
    /\ WidgetsRendered
    /\ \E c \in Categories :
         \E v \in Range(quick_labels(Work, col_of(Bound, c))) :
            Rerun(uploaded_file, url_input, ms, date_input, search_text, QuickClick(c, v))

SetDateRange(D) ==
    /\ WidgetsRendered
    /\ Bound.data # 0
    /\ \E a \in D, b \in D :
         \E w \in {DateRange(a, b), SingleDate(a)} :
            /\ a <= b
            /\ w # date_input
            /\ Rerun(uploaded_file, url_input, ms, w, search_text, NoClick)

SetSearch(U) ==
    /\ WidgetsRendered
    /\ \E s \in U :
         /\ s # search_text
         /\ Rerun(uploaded_file, url_input, ms, date_input, s, NoClick)

ClickPdf ==
    /\ outcome = "done"
    /\ Rerun(uploaded_file, url_input, ms, date_input, search_text, PdfClick)

-----------------------------------------------------------------------------
(* Specifications *)

\* a new session: the script has run once with no file and no URL
InitWith(T, R) ==
    /\ table \in T
    /\ uploaded_file = "none"
    /\ url_input = ""
    /\ response = NoResponse
    /\ ms = EmptySelection
    /\ date_input = DefaultDate
    /\ search_text = <<>>
    /\ session_state = EmptySession
    /\ clicked = NoClick
    /\ outcome = "stopped"
    /\ errors = {I_send}
    /\ parsed = FALSE
    /\ selected = EmptySelection
    /\ date_range = NoRange
    /\ df_filtered = NoFrame
    /\ series = NoSeries
    /\ filtered_file = NoFile
    /\ report \in R

\* whole sessions over a few spreadsheets, with an uploaded file
Init == InitWith(SessionTables, {NoReport, StaleReport})
Next ==
    \/ UploadFile
    \/ RemoveFile
    \/ SetMultiselect
    \/ ClickQuick
    \/ SetDateRange(SessionDays)
    \/ SetSearch(SessionSearchTexts)
    \/ ClickPdf
Spec == Init /\ [][Next]_vars

\* the loader: upload and URL download
InitLoader == InitWith(SessionTables, {NoReport, StaleReport})
NextLoader ==
    \/ UploadFile
    \/ RemoveFile
    \/ SetUrl
    \/ ClickQuick
    \/ SetSearch(SessionSearchTexts)
SpecLoader == InitLoader /\ [][NextLoader]_vars

\* the filter stage over every spreadsheet of up to MaxRows rows
InitFilter == InitWith(FilterTables, {NoReport})
NextFilter ==
    \/ UploadFile
    \/ SetMultiselect
    \/ SetDateRange(Days)
    \/ SetSearch(SearchTexts)
SpecFilter == InitFilter /\ [][NextFilter]_vars

\* the frames the filter stage hands on, over the same spreadsheets with the
\* search texts and dates of the session-level specification
NextFrame ==
    \/ UploadFile
    \/ SetMultiselect
    \/ SetDateRange(SessionDays)
    \/ SetSearch(SessionSearchTexts)
SpecFrame == InitFilter /\ [][NextFrame]_vars

\* the aggregates over spreadsheets with many distinct situations
InitAgg == InitWith(AggTables, {NoReport})
NextAgg ==
    \/ UploadFile
    \/ ClickQuick
    \/ ClickPdf
SpecAgg == InitAgg /\ [][NextAgg]_vars

-----------------------------------------------------------------------------
(* Properties *)

Rows == df_filtered.rows
Loaded(r) == table.rows[r.idx]
\* the index labels of a frame, in order
Labels(df) == [i \in 1..Len(df) |-> df[i].idx]
Increasing(s) == \A i, j \in 1..Len(s) : i < j => s[i] < s[j]
\* plain case-insensitive substring test of the trimmed search text on a cell
HasText(cell, st) == Contains(Lower(astype_str(cell)), Lower(Strip(st)))
\* the frame the date predicate is applied to, and the one the search is applied to
BeforeDates == after_categories(Work, Bound, selected)
BeforeSearch == after_dates(Work, Bound, selected, date_range)

C2_DefaultsKeepEveryRow ==
    ( /\ df_filtered.valid
      /\ ms = EmptySelection
      /\ clicked.kind # "quick"
      /\ search_text = <<>>
      /\ date_input = DefaultDate ) =>
        Labels(Rows) = [i \in 1..Len(table.rows) |-> i]

\* C3: with a bound date column and a range (start, end), the date predicate
\* keeps a row exactly when its date is non-null and start <= date <= end, both
\* days included: a record dated on the end day is kept.
C3_DateRangeInclusive ==
    ( /\ df_filtered.valid
      /\ Bound.data # 0
      /\ date_range.kind = "range"
      /\ search_text = <<>> ) =>
        \A i \in 1..Len(BeforeDates) :
            LET r == BeforeDates[i] IN
            (r \in Range(Rows)) <=>
                ( /\ ~isnull(r.cells[Bound.data])
                  /\ date_range.a <= DateOf(r.cells[Bound.data].n)
                  /\ DateOf(r.cells[Bound.data].n) <= date_range.b )

\* C7: a filter whose column is unbound removes no rows: an unbound category
\* or date column leaves its predicate unrestricted, a search text removes no
\* row on account of unbound searched columns, and no run fails for it.
C7_UnboundColumnsRemoveNoRows ==
    /\ outcome = "filter_error" => BoundSearchCols(Bound) # {}
    /\ df_filtered.valid =>
        /\ \A c \in Categories : col_of(Bound, c) = 0 => selected[c] = {}
        /\ Bound.data = 0 => Labels(BeforeSearch) = Labels(BeforeDates)
        /\ BoundSearchCols(Bound) = {} => Labels(Rows) = Labels(BeforeSearch)

\* C8: with a non-empty search text a row passes the search exactly when the
\* lower-cased text of a bound searched cell contains the lower-cased, trimmed
\* search text as a substring (OR over the bound searched columns).
C8_SearchIsSubstringMatch ==
    (df_filtered.valid /\ search_text # <<>>) =>
        \A i \in 1..Len(BeforeSearch) :
            LET r == BeforeSearch[i] IN
            (r \in Range(Rows)) <=>
                \E c \in BoundSearchCols(Bound) : HasText(r.cells[c], search_text)

\* the distinct normalized values of a category column among the filtered rows
DistinctValues(c) == Range(normalized(Rows, col_of(Bound, c)))
\* the category column is bound and the loaded column holds no missing value
NoMissing(c) ==
    /\ col_of(Bound, c) # 0
    /\ \A i \in 1..Len(table.rows) : ~isnull(table.rows[i][col_of(Bound, c)])
ReportTable(c) == IF c = "sit" THEN report.sit ELSE IF c = "org" THEN report.org ELSE report.pec

\* C4 as stated: for each bound category column without missing values, the
\* counts of the chart series and of the PDF table sum to the number of rows of
\* the filtered table, whatever the number of distinct values.
C4_CountsSumToRowCount ==
    outcome = "done" =>
        \A c \in Categories : NoMissing(c) =>
            /\ SumCounts(series[c]) = Len(Rows)
            /\ clicked.kind = "pdf" => SumCounts(ReportTable(c)) = Len(Rows)

\* C4 as amended: the counts sum to the number of filtered rows when the column
\* has at most 20 distinct values among them; with more, only the 20 largest
\* counts are kept and the sum is at most the number of rows.
C4_CountsSumUpToTopN ==
    outcome = "done" =>
        \A c \in Categories : NoMissing(c) =>
            /\ SumCounts(series[c]) <= Len(Rows)
            /\ Len(series[c]) <= TopN
            /\ Cardinality(DistinctValues(c)) <= TopN => SumCounts(series[c]) = Len(Rows)
            /\ clicked.kind = "pdf" =>
                /\ SumCounts(ReportTable(c)) <= Len(Rows)
                /\ Cardinality(DistinctValues(c)) <= TopN => SumCounts(ReportTable(c)) = Len(Rows)

\* a report of more rows than TopN whose TopN situations sum to all of them
C4_Witness ==
    /\ outcome = "done"
    /\ clicked.kind = "pdf"
    /\ NoMissing("sit")
    /\ Len(Rows) > TopN
    /\ Len(report.sit) = TopN
    /\ SumCounts(report.sit) = Len(Rows)

\* C5 as stated: every row of the filtered table, and of the saved filtered
\* spreadsheet, is a row of the loaded table with identical cells in every
\* column, and no row is added.
C5_CellsIdentical ==
    df_filtered.valid =>
        /\ Increasing(Labels(Rows))
        /\ \A i \in 1..Len(Rows) :
             /\ Rows[i].idx \in 1..Len(table.rows)
             /\ Rows[i].cells = Loaded(Rows[i])
        /\ filtered_file.rows = Rows

\* C5 as amended: every filtered row is a loaded row, none added or repeated,
\* with identical cells in every column but the bound date column, whose cell
\* is the coerced date of the loaded cell (null when unparseable); the saved
\* spreadsheet holds the same rows.
C5_CellsIdenticalButDate ==
    df_filtered.valid =>
        /\ Increasing(Labels(Rows))
        /\ \A i \in 1..Len(Rows) :
             /\ Rows[i].idx \in 1..Len(table.rows)
             /\ \A j \in 1..Len(table.cols) :
                  Rows[i].cells[j] =
                      IF j = Bound.data THEN to_datetime(Loaded(Rows[i])[j])
                      ELSE Loaded(Rows[i])[j]
        /\ filtered_file.rows = Rows

\* a filtered table that dropped a row and kept one whose text date was coerced
C5_Witness ==
    /\ df_filtered.valid
    /\ Len(Rows) < Len(table.rows)
    /\ \E i \in 1..Len(Rows) :
         /\ Loaded(Rows[i])[Bound.data].t = "str"
         /\ Rows[i].cells[Bound.data].t = "ts"
         /\ \E j \in 1..Len(table.cols) : isnull(Rows[i].cells[j])

\* C6: on the URL path, a response whose body contains "captcha" makes load_df
\* return no frame whatever the status code: the CAPTCHA error is reported, the
\* bytes are not parsed and the run stops before the filter stage, not raising.
C6_CaptchaAbortsDownload ==
    ( /\ uploaded_file = "none"
      /\ url_input # ""
      /\ response.kind = "http"
      /\ Contains(response.text, S_captcha) ) =>
        /\ outcome = "stopped"
        /\ E_captcha \in errors
        /\ E_download \notin errors
        /\ ~parsed
        /\ ~df_filtered.valid
        /\ series = NoSeries

\* a status-200 response whose bytes are a spreadsheet and contain "captcha",
\* received after a filtered spreadsheet had been saved by an earlier run
C6_Witness ==
    /\ uploaded_file = "none"
    /\ url_input # ""
    /\ response.kind = "http"
    /\ response.status = 200
    /\ response.xlsx
    /\ Contains(response.text, S_captcha)
    /\ outcome = "stopped"
    /\ filtered_file.exists

\* C9: the report file changes only in a run in which the generate-PDF button
\* was clicked; in such a run its total and its three tables are the length and
\* the aggregates of that run's filtered table, nothing of the old report kept.
C9_ReportOnlyOnRequest ==
    /\ [][report' # report => clicked'.kind = "pdf"]_vars
    /\ []((clicked.kind = "pdf" /\ outcome = "done") =>
            /\ report.exists
            /\ report.total = Len(Rows)
            /\ report.sit = series["sit"]
            /\ report.org = series["org"]
            /\ report.pec = series["pec"]
            /\ \A c \in Categories :
                 series[c] = IF col_of(Bound, c) # 0
                             THEN head(value_counts(normalized(Rows, col_of(Bound, c))), TopN)
                             ELSE <<>>)

\* a report generated in this session over a filtered table, still on disk
\* after a later run that stopped at the loader
C9_Witness ==
    /\ report.exists
    /\ report # StaleReport
    /\ report.total < Len(table.rows)
    /\ outcome = "stopped"
    /\ clicked.kind # "pdf"

\* C10: the selection the filter stage uses for a category is the single value
\* of the quick-filter button clicked in this run, else the multiselect's
\* value; the last-clicked value in the session state never changes the
\* filtered table.
C10_QuickFilterLastsOneRun ==
    df_filtered.valid =>
        /\ \A c \in Categories :
             selected[c] = IF clicked.kind = "quick" /\ clicked.cat = c
                           THEN {clicked.val} ELSE ms[c]
        /\ Rows = filter_stage(Work, Bound,
                               [c \in Categories |->
                                   IF clicked.kind = "quick" /\ clicked.cat = c
                                   THEN {clicked.val} ELSE ms[c]],
                               date_range, search_text)

\* a run after a quick-filter click, with another button clicked: the whole
\* table is back although the session state still holds the clicked value
C10_Witness ==
    /\ df_filtered.valid
    /\ clicked.kind = "pdf"
    /\ session_state["sit"].set
    /\ ms["sit"] = {}
    /\ selected["sit"] = {}
    /\ \E i \in 1..Len(Rows) :
         fillna_str(Rows[i].cells[Bound.sit]) # session_state["sit"].val

====
